---- MODULE Spec2Model ----
(***************************************************************************)
(* Instance composition and lifecycle scoping of Elysia, as documented in  *)
(* the skill: encapsulation scope levels (local / scoped / global), order  *)
(* of code, and plugin deduplication by name and seed.                     *)
(*                                                                         *)
(* Instances are written with method chaining, one after the other: the    *)
(* instance under construction (cur) declares hooks and routes and uses    *)
(* instances that were completed before it.                                *)
(***************************************************************************)
EXTENDS Integers, Sequences, FiniteSets, TLC

\* ------------------------------------------------------------------ bounds
NumNodes  == 4      \* instances written in one program
MaxHooks  == 2      \* lifecycle hooks declared in the whole program
MaxRoutes == 1      \* routes declared on one instance
MaxUses   == 2      \* .use() calls made by one instance
MaxOps    == 8      \* declarations (hooks, routes, uses) in the whole program
MaxReqs   == 2      \* requests the server receives

Nodes == 1..NumNodes

\* --------------------------------------------------------------- constants
Local  == "local"
Scoped == "scoped"
Global == "global"
Scopes == {Local, Scoped, Global}

NoName == "anonymous"
NoSeed == "noseed"
Names  == {"ip"}
Seeds  == {"v1", "v2"}

\* what a route handler takes from the context: .decorate('db', db)
NoRef == "noref"
Caps  == {"db"}

\* a macro and the values a route gives it: role: 'admin', role: 'user'
NoTrait == [name |-> "notrait", param |-> "none"]
Macros  == {"role"}
Params  == {"admin", "user"}
Traits  == [name : Macros, param : Params]

\* how the program ended when it did not build
NoError == [kind |-> "none", node |-> 0, ref |-> NoRef]
MissingDependency == "missing-dependency"
MissingTrait      == "missing-trait"
CyclicComposition == "cyclic-composition"

\* new Elysia() or new Elysia({ name, seed? })
Anonymous == [name |-> NoName, seed |-> NoSeed]

\* new Elysia({ name, seed })
Versioned == [name |-> "ip", seed |-> "v1"]

Configs == {Anonymous} \cup [name : Names, seed : Seeds \cup {NoSeed}]

VARIABLES
    cur,        \* the instance under construction (0: none yet)
    config,     \* config[n]: the { name, seed } given to the constructor
    hooks,      \* hooks[id]: declaring instance, scope and order of hook id
    event,      \* event[n]: the life-cycle events instance n applies to new routes
    routes,     \* routes[n]: the route table of instance n
    registry,   \* the identifiers of the plugins that have been executed
    executed,   \* executed[n]: how many times plugin n has been executed
    mounts,     \* mounts[n]: how many times plugin n has been applied with .use()
    edges,      \* the .use() calls made: [p, c, order]
    clock,      \* order of code: the number of declarations made so far
    decorator,  \* decorator[n]: the properties instance n has in its context
    macro,      \* macro[n]: the macros instance n can refer to
    guard,      \* the guards whose builder is open: the hooks they apply
    error,      \* the error that ended the program, NoError while it builds
    served,     \* the instance that listens (0: none yet)
    reqs,       \* the requests received: route, hooks run so far, response
    onError,    \* onError[n]: the order at which instance n registered .onError (0: not)
    store,      \* the value of the state shared by the requests
    thrown      \* the errors thrown by hooks and handlers: request, place, handler

assembly == <<decorator, macro, guard, error>>

server == <<served, reqs>>

handling == <<onError, store, thrown>>

vars == <<cur, config, hooks, event, routes, registry, executed, mounts, edges, clock,
          decorator, macro, guard, error, served, reqs, onError, store, thrown>>

\* ----------------------------------------------------------------- helpers
Ids(ev) == [i \in 1..Len(ev) |-> ev[i].id]

Range(s) == {s[i] : i \in 1..Len(s)}

Has(ev, id) == \E i \in 1..Len(ev) : ev[i].id = id

\* variant: the seed is left out of the identifier
KeyNameOnly(cfg) == <<cfg.name, NoSeed>>

\* the identifier used for deduplication: name and optional seed
Key(cfg) == <<cfg.name, cfg.seed>>

\* variant: no deduplication, every use executes the plugin
shouldRegisterAlways(cfg) == TRUE

\* variant: the absent name is treated as a name like any other
shouldRegisterNameless(cfg) == \A n \in Nodes : config[n] = cfg => executed[n] = 0

\* a plugin is executed unless it has a name whose identifier was executed before
shouldRegister(cfg) == cfg.name = NoName \/ Key(cfg) \notin registry

\* the identifier of an executed plugin that has a name is recorded
record(cfg) == IF cfg.name # NoName THEN registry \cup {Key(cfg)} ELSE registry

\* the hook was declared by a plugin that has a name
Named(id) == config[hooks[id].node].name # NoName

\* variant: a scoped hook stays scoped in the instance that uses the plugin
LiftedKeep(scope) == scope

\* variant: a global hook becomes local in the instance that uses the plugin
LiftedAllLocal(scope) == Local

\* variant: local hooks are exported too
ExposedAll(scope) == TRUE

\* scope of a hook of a plugin as seen by the instance that uses the plugin:
\* local stays inside, scoped reaches the parent only, global goes on
Lifted(scope) == IF scope = Global THEN Global ELSE Local

Exposed(scope) == scope # Local

\* variant: the plugin hands all its events over, scopes unchanged
ExportedAll(ev) == ev

\* the events a plugin exports to the instance that uses it
RECURSIVE Exported(_)
Exported(ev) ==
    IF ev = <<>> THEN <<>>
    ELSE LET h == Head(ev)
         IN  IF Exposed(h.scope)
             THEN <<[id |-> h.id, scope |-> Lifted(h.scope)]>> \o Exported(Tail(ev))
             ELSE Exported(Tail(ev))

\* variant: the events of a named plugin are applied again like the others
mergeLifeCycleAgain(ev, inc) == ev \o inc

\* merging the life cycle of an executed plugin: events of a named plugin are
\* deduplicated, events of an anonymous plugin are applied again
RECURSIVE mergeLifeCycle(_, _)
mergeLifeCycle(ev, inc) ==
    IF inc = <<>> THEN ev
    ELSE LET h == Head(inc)
         IN  mergeLifeCycle(IF Named(h.id) /\ Has(ev, h.id) THEN ev ELSE Append(ev, h),
                            Tail(inc))

\* a deduplicated plugin is not executed again; what its first execution
\* produced stays available to the instance that uses it
RECURSIVE attach(_, _)
attach(ev, inc) ==
    IF inc = <<>> THEN ev
    ELSE LET h == Head(inc)
         IN  attach(IF Has(ev, h.id) THEN ev ELSE Append(ev, h), Tail(inc))

\* variant: a route is registered without the events registered so far
CaptureNone(ev) == <<>>

\* variant: the event registered last runs first
CaptureNewestFirst(ev) == [i \in 1..Len(ev) |-> ev[Len(ev) + 1 - i].id]

\* the chain a route gets when it is registered: the events registered so far
Capture(ev) == Ids(ev)

\* variant: the routes of a plugin do not get the events of the instance
MountedBare(rs, ev, o) == [i \in 1..Len(rs) |-> [rs[i] EXCEPT !.at = o]]

\* the events of the instance a route of a plugin gets: the event of a named
\* plugin the route has already is not applied again
Inherited(ids, chain) ==
    SelectSeq(ids, LAMBDA id : ~(Named(id) /\ \E i \in 1..Len(chain) : chain[i] = id))

\* the routes of a plugin as registered by the instance that uses it
Mounted(rs, ev, o) ==
    [i \in 1..Len(rs) |->
        [rs[i] EXCEPT !.chain = Inherited(Capture(ev), @) \o @, !.at = o]]

\* variant: a new event is applied to the routes registered before it
AfterOnRetro(rs, id) == [i \in 1..Len(rs) |-> [rs[i] EXCEPT !.chain = Append(@, id)]]

\* an event applies to the routes registered after it, never to the earlier ones
AfterOn(rs, id) == rs

\* .as(scope) lifts the narrower hooks of the instance
Narrower(s, scope) == s = Local \/ (s = Scoped /\ scope = Global)

Uses(n) == {e \in edges : e.p = n}

Children(n) == {e.c : e \in Uses(n)}

RECURSIVE Descendants(_)
Descendants(n) == Children(n) \cup UNION {Descendants(c) : c \in Children(n)}

Ancestors(n) == {a \in Nodes : n \in Descendants(a)}

Parents(n) == {a \in Nodes : n \in Children(a)}

\* the instance has been given something: an empty instance is never written
NonEmpty(n) ==
    \/ event[n] # <<>> \/ routes[n] # <<>> \/ Uses(n) # {}
    \/ decorator[n] # {} \/ macro[n] # {}

OwnRoutes(n) == Len(SelectSeq(routes[n], LAMBDA r : r.node = n))

\* the routes declared in the builder that is open (the instance itself when
\* no guard is open)
FrameRoutes(n) == Len(SelectSeq(routes[n], LAMBDA r : r.node = n /\ r.frame = guard))

\* the program is being built: no error has ended it and it does not listen yet
Building == error = NoError /\ served = 0

\* variant: any instance can be named in .use(), the instance itself too
DeclaredOrSelf(c) == c <= cur

\* the instance named in .use() has been declared: a const is declared once its
\* chain of calls is complete
Declared(c) == c < cur

\* the property a handler takes from the context, as the instance has it
NoDep == [name |-> NoRef, owner |-> 0]

\* variant: what the handler takes is not checked against the instance
ResolvesAny(n, ref) == TRUE

\* the handler takes nothing, or a property the instance has
Resolves(n, ref) == ref = NoRef \/ \E d \in decorator[n] : d.name = ref

Resolve(n, ref) ==
    IF ref = NoRef THEN NoDep
    ELSE IF \E d \in decorator[n] : d.name = ref
         THEN CHOOSE d \in decorator[n] : d.name = ref
         ELSE [name |-> ref, owner |-> 0]

Defined(n, trait) == trait = NoTrait \/ trait.name \in macro[n]

\* variant: a plugin that is not executed again hands nothing over
attachDecoratorNone(own, inc) == own

\* the properties of a deduplicated plugin stay available where it is used
attachDecorator(own, inc) == own \cup inc

\* the properties of an executed plugin are added to the instance that uses it
mergeDecorator(own, inc) == own \cup inc

\* variant: the value given to the macro is lost
ExpandFixed(trait, o) ==
    IF trait = NoTrait THEN <<>>
    ELSE <<[name |-> trait.name, param |-> "admin", order |-> o]>>

\* the hooks a route gets from the macro it refers to: the macro is called with
\* the value the route gives
Expand(trait, o) ==
    IF trait = NoTrait THEN <<>>
    ELSE <<[name |-> trait.name, param |-> trait.param, order |-> o]>>

\* variant: the hooks of the guard are not given to the routes of its builder
GuardedNone(ev, g) == Capture(ev)

\* variant: the hook of the inner guard replaces the hook of the outer one
GuardedInnermost(ev, g) ==
    Capture(ev) \o (IF g = <<>> THEN <<>> ELSE <<g[Len(g)]>>)

\* the chain of a route declared in a builder: the events of the instance, then
\* the hooks of the open guards, outermost first
Guarded(ev, g) == Capture(ev) \o g

\* a guard opened inside the builder of another adds its hook to the outer ones
Nest(g, id) == Append(g, id)

\* -------------------------------------------------------------------- init
Init ==
    /\ cur = 0
    /\ config = [n \in Nodes |-> [name |-> NoName, seed |-> NoSeed]]
    /\ hooks = <<>>
    /\ event = [n \in Nodes |-> <<>>]
    /\ routes = [n \in Nodes |-> <<>>]
    /\ registry = {}
    /\ executed = [n \in Nodes |-> 0]
    /\ mounts = [n \in Nodes |-> 0]
    /\ edges = {}
    /\ clock = 0
    /\ decorator = [n \in Nodes |-> {}]
    /\ macro = [n \in Nodes |-> {}]
    /\ guard = <<>>
    /\ error = NoError
    /\ served = 0
    /\ reqs = <<>>
    /\ onError = [n \in Nodes |-> 0]
    /\ store = 0
    /\ thrown = <<>>

\* ----------------------------------------------------------------- actions
\* const x = new Elysia(cfg): the previous instance is complete
NewInstance(cfg) ==
    /\ Building
    /\ guard = <<>>
    /\ cur < NumNodes
    /\ IF cur = 0 THEN TRUE ELSE NonEmpty(cur)
    /\ cfg.name # NoName => \A n \in 1..cur : config[n] # cfg
    /\ cur' = cur + 1
    /\ config' = [config EXCEPT ![cur + 1] = cfg]
    /\ UNCHANGED <<hooks, event, routes, registry, executed, mounts, edges, clock>>
    /\ UNCHANGED assembly
    /\ UNCHANGED server
    /\ UNCHANGED handling

\* .onBeforeHandle({ as: scope }, fn)
On(scope) ==
    /\ Building
    /\ guard = <<>>
    /\ cur \in Nodes
    /\ Len(hooks) < MaxHooks
    /\ clock < MaxOps
    /\ LET id == Len(hooks) + 1
       IN  /\ hooks' = Append(hooks, [node |-> cur, scope |-> scope, order |-> clock + 1])
           /\ event' = [event EXCEPT ![cur] = Append(@, [id |-> id, scope |-> scope])]
           /\ routes' = [routes EXCEPT ![cur] = AfterOn(@, id)]
    /\ clock' = clock + 1
    /\ UNCHANGED <<cur, config, registry, executed, mounts, edges>>
    /\ UNCHANGED assembly
    /\ UNCHANGED server
    /\ UNCHANGED handling

\* .as('scoped') / .as('global')
As(scope) ==
    /\ Building
    /\ guard = <<>>
    /\ cur \in Nodes
    /\ \E i \in 1..Len(hooks) : hooks[i].node = cur /\ Narrower(hooks[i].scope, scope)
    /\ hooks' = [i \in 1..Len(hooks) |->
                    IF hooks[i].node = cur /\ Narrower(hooks[i].scope, scope)
                    THEN [hooks[i] EXCEPT !.scope = scope] ELSE hooks[i]]
    /\ event' = [event EXCEPT ![cur] =
                    [i \in 1..Len(@) |->
                        IF hooks[@[i].id].node = cur /\ Narrower(@[i].scope, scope)
                        THEN [@[i] EXCEPT !.scope = scope] ELSE @[i]]]
    /\ UNCHANGED <<cur, config, routes, registry, executed, mounts, edges, clock>>
    /\ UNCHANGED assembly
    /\ UNCHANGED server
    /\ UNCHANGED handling

\* .decorate(cap, value): the instance is the owner of the value
Decorate(cap) ==
    /\ Building
    /\ guard = <<>>
    /\ cur \in Nodes
    /\ clock < MaxOps
    /\ \A n \in Nodes : \A d \in decorator[n] : d.name # cap
    /\ decorator' = [decorator EXCEPT ![cur] = @ \cup {[name |-> cap, owner |-> cur]}]
    /\ clock' = clock + 1
    /\ UNCHANGED <<cur, config, hooks, event, routes, registry, executed, mounts, edges>>
    /\ UNCHANGED <<macro, guard, error>>
    /\ UNCHANGED server
    /\ UNCHANGED handling

\* .macro({ name: (param) => ({ beforeHandle }) })
Macro(name) ==
    /\ Building
    /\ guard = <<>>
    /\ cur \in Nodes
    /\ clock < MaxOps
    /\ name \notin macro[cur]
    /\ macro' = [macro EXCEPT ![cur] = @ \cup {name}]
    /\ clock' = clock + 1
    /\ UNCHANGED <<cur, config, hooks, event, routes, registry, executed, mounts, edges>>
    /\ UNCHANGED <<decorator, guard, error>>
    /\ UNCHANGED server
    /\ UNCHANGED handling

\* .guard({ beforeHandle }, app => app ...: the builder of the guard opens
Guard ==
    /\ Building
    /\ cur \in Nodes
    /\ Len(hooks) < MaxHooks
    /\ clock < MaxOps
    /\ hooks' = Append(hooks, [node |-> cur, scope |-> Local, order |-> clock + 1])
    /\ guard' = Nest(guard, Len(hooks) + 1)
    /\ clock' = clock + 1
    /\ UNCHANGED <<cur, config, event, routes, registry, executed, mounts, edges>>
    /\ UNCHANGED <<decorator, macro, error>>
    /\ UNCHANGED server
    /\ UNCHANGED handling

\* ... ): the builder of the innermost guard closes
EndGuard ==
    /\ Building
    /\ guard # <<>>
    /\ guard' = SubSeq(guard, 1, Len(guard) - 1)
    /\ UNCHANGED <<cur, config, hooks, event, routes, registry, executed, mounts, edges,
                   clock>>
    /\ UNCHANGED <<decorator, macro, error>>
    /\ UNCHANGED server
    /\ UNCHANGED handling

\* .get(path, ({ ref }) => ..., { name: param }): a handler that takes a
\* property the instance does not have, or a macro it does not have, is an
\* error and the program does not build
Get(ref, trait) ==
    /\ Building
    /\ cur \in Nodes
    /\ FrameRoutes(cur) < MaxRoutes
    /\ clock < MaxOps
    /\ IF ~Resolves(cur, ref)
       THEN /\ error' = [kind |-> MissingDependency, node |-> cur, ref |-> ref]
            /\ UNCHANGED routes
       ELSE IF ~Defined(cur, trait)
       THEN /\ error' = [kind |-> MissingTrait, node |-> cur, ref |-> NoRef]
            /\ UNCHANGED routes
       ELSE /\ routes' = [routes EXCEPT ![cur] =
                    Append(@, [node |-> cur, order |-> clock + 1, at |-> clock + 1,
                               chain |-> Guarded(event[cur], guard),
                               frame |-> guard,
                               ref |-> Resolve(cur, ref),
                               trait |-> trait,
                               local |-> Expand(trait, clock + 1)])]
            /\ UNCHANGED error
    /\ clock' = clock + 1
    /\ UNCHANGED <<cur, config, hooks, event, registry, executed, mounts, edges>>
    /\ UNCHANGED <<decorator, macro, guard>>
    /\ UNCHANGED server
    /\ UNCHANGED handling

\* .use(c): naming an instance whose declaration is not complete (the instance
\* itself, or one declared further down) is an error and the program does not
\* build
Use(c) ==
    /\ Building
    /\ guard = <<>>
    /\ cur \in Nodes
    /\ c \in Nodes
    /\ Cardinality(Uses(cur)) < MaxUses
    /\ clock < MaxOps
    /\ IF Declared(c)
       THEN /\ edges' = edges \cup {[p |-> cur, c |-> c, order |-> clock + 1]}
            /\ mounts' = [mounts EXCEPT ![c] = @ + 1]
            /\ clock' = clock + 1
            /\ macro' = [macro EXCEPT ![cur] = @ \cup macro[c]]
            /\ IF shouldRegister(config[c])
               THEN /\ routes' = [routes EXCEPT ![cur] =
                                    @ \o Mounted(routes[c], event[cur], clock + 1)]
                    /\ event' = [event EXCEPT ![cur] =
                                    mergeLifeCycle(@, Exported(event[c]))]
                    /\ decorator' = [decorator EXCEPT ![cur] =
                                        mergeDecorator(@, decorator[c])]
                    /\ executed' = [executed EXCEPT ![c] = @ + 1]
                    /\ registry' = record(config[c])
               ELSE /\ event' = [event EXCEPT ![cur] = attach(@, Exported(event[c]))]
                    /\ decorator' = [decorator EXCEPT ![cur] =
                                        attachDecorator(@, decorator[c])]
                    /\ UNCHANGED <<routes, executed, registry>>
            /\ UNCHANGED error
       ELSE /\ error' = [kind |-> CyclicComposition, node |-> cur, ref |-> NoRef]
            /\ UNCHANGED <<edges, mounts, clock, macro, routes, event, decorator,
                           executed, registry>>
    /\ UNCHANGED <<cur, config, hooks, guard>>
    /\ UNCHANGED server
    /\ UNCHANGED handling

\* ------------------------------------------------------------------ server
Continue == "continue"
Halt     == "halt"
Outcomes == {Continue, Halt}

Running   == "running"
Suspended == "suspended"
Done      == "done"

NoEntry == [hook |-> 0, trait |-> NoTrait, order |-> 0]

NoResponse == [status |-> "none", by |-> NoEntry]

\* variant: the hooks of the macro run before the events of the instance
ReferencedFirst(chain, local) == local \o chain

\* where the hooks a route gets from its macro go in the chain of the route:
\* at the point of the route that refers to the macro, after the hooks
\* declared before the route
Referenced(chain, local) == chain \o local

\* what a request to the route runs before the handler: the chain the route
\* captured and the hooks the route got from its macro
HookChain(r) ==
    Referenced(
        [i \in 1..Len(r.chain) |->
            [hook |-> r.chain[i], trait |-> NoTrait, order |-> hooks[r.chain[i]].order]],
        [i \in 1..Len(r.local) |->
            [hook |-> 0, trait |-> [name |-> r.local[i].name, param |-> r.local[i].param],
             order |-> r.local[i].order]])

\* variant: a hook that returns a status does not end the request
AdvancePastHalt(rq, chain, outcome) ==
    IF rq.pos < Len(chain)
    THEN [rq EXCEPT !.pos = @ + 1, !.ran = Append(@, chain[rq.pos + 1]),
                    !.resp = IF outcome = Halt
                             THEN [status |-> "halt", by |-> chain[rq.pos + 1]] ELSE @]
    ELSE [rq EXCEPT !.handled = TRUE, !.state = Done,
                    !.resp = [status |-> "ok", by |-> NoEntry]]

\* one step of a request: the next hook of the chain runs; when it returns a
\* status the request ends with it, otherwise the chain goes on, and after the
\* last hook the handler answers
Advance(rq, chain, outcome) ==
    IF rq.pos < Len(chain)
    THEN IF outcome = Halt
         THEN [rq EXCEPT !.pos = @ + 1, !.ran = Append(@, chain[rq.pos + 1]),
                         !.state = Done,
                         !.resp = [status |-> "halt", by |-> chain[rq.pos + 1]]]
         ELSE [rq EXCEPT !.pos = @ + 1, !.ran = Append(@, chain[rq.pos + 1])]
    ELSE [rq EXCEPT !.handled = TRUE, !.state = Done,
                    !.resp = [status |-> "ok", by |-> NoEntry]]

\* variant: the next hook starts while the hook before it is suspended
ReadyWhileSuspended(rq) == rq.state \in {Running, Suspended}

\* the next hook of a request starts when the hook before it has returned
Ready(rq) == rq.state = Running

\* an async hook starts and reaches its await
Begin(rq) == [rq EXCEPT !.pos = @ + 1, !.state = Suspended]

\* the awaited hook returns: with a status the request ends, otherwise the
\* chain goes on
Settle(rq, chain, outcome) ==
    IF outcome = Halt
    THEN [rq EXCEPT !.ran = Append(@, chain[rq.pos]), !.state = Done,
                    !.resp = [status |-> "halt", by |-> chain[rq.pos]]]
    ELSE [rq EXCEPT !.ran = Append(@, chain[rq.pos]), !.state = Running]

\* the onError of the instance applies to the route: it was registered before
\* the route (0: the route has none)
Catches(n, r) == IF onError[n] # 0 /\ onError[n] < r.at THEN onError[n] ELSE 0

\* variant: the error is dropped and the request goes on
ThrownSwallowed(rq, chain, handler) ==
    [rq EXCEPT !.pos = IF rq.state = Running /\ rq.pos < Len(chain) THEN @ + 1 ELSE @,
               !.state = Running]

\* a hook or the handler of the request throws: nothing more of the request
\* runs, onError answers when the route has one, otherwise the request ends
\* with the failure response
Thrown(rq, chain, handler) ==
    [rq EXCEPT !.pos = IF rq.state = Running /\ rq.pos < Len(chain) THEN @ + 1 ELSE @,
               !.state = Done,
               !.resp = IF handler # 0
                        THEN [status |-> "error",
                              by |-> [hook |-> 0, trait |-> NoTrait, order |-> handler]]
                        ELSE [status |-> "failure", by |-> NoEntry]]

Aborted == [status |-> "aborted", by |-> NoEntry]

\* variant: the timeout of one request ends every request that awaits
AbortAll(rs, q) ==
    [p \in 1..Len(rs) |->
        IF rs[p].state = Suspended
        THEN [rs[p] EXCEPT !.state = Done, !.resp = Aborted] ELSE rs[p]]

\* the request times out or its client is gone while its hook awaits: what
\* is left of its chain and its handler do not run
Abort(rs, q) == [rs EXCEPT ![q] = [@ EXCEPT !.state = Done, !.resp = Aborted]]

\* .listen(3000): the instance written last is the application
Listen ==
    /\ Building
    /\ guard = <<>>
    /\ cur \in Nodes
    /\ routes[cur] # <<>>
    /\ served' = cur
    /\ UNCHANGED <<cur, config, hooks, event, routes, registry, executed, mounts, edges,
                   clock>>
    /\ UNCHANGED assembly
    /\ UNCHANGED reqs
    /\ UNCHANGED handling

\* app.handle(new Request(path)): a request for route i of the application
Receive(i) ==
    /\ served # 0
    /\ Len(reqs) < MaxReqs
    /\ i \in 1..Len(routes[served])
    /\ reqs' = Append(reqs, [route |-> i, pos |-> 0, ran |-> <<>>, state |-> Running,
                             handled |-> FALSE, resp |-> NoResponse])
    /\ UNCHANGED <<cur, config, hooks, event, routes, registry, executed, mounts, edges,
                   clock>>
    /\ UNCHANGED assembly
    /\ UNCHANGED served
    /\ UNCHANGED handling

\* request q goes one step on
Step(q, outcome) ==
    /\ served # 0
    /\ q \in 1..Len(reqs)
    /\ Ready(reqs[q])
    /\ reqs' = [reqs EXCEPT ![q] =
                    Advance(@, HookChain(routes[served][@.route]), outcome)]
    /\ UNCHANGED <<cur, config, hooks, event, routes, registry, executed, mounts, edges,
                   clock>>
    /\ UNCHANGED assembly
    /\ UNCHANGED served
    /\ UNCHANGED handling

\* .onError(handler)
OnError ==
    /\ Building
    /\ guard = <<>>
    /\ cur \in Nodes
    /\ clock < MaxOps
    /\ onError[cur] = 0
    /\ onError' = [onError EXCEPT ![cur] = clock + 1]
    /\ clock' = clock + 1
    /\ UNCHANGED <<cur, config, hooks, event, routes, registry, executed, mounts, edges>>
    /\ UNCHANGED assembly
    /\ UNCHANGED server
    /\ UNCHANGED <<store, thrown>>

\* what request q runs next, or the hook it awaits, throws
Raise(q) ==
    /\ served # 0
    /\ q \in 1..Len(reqs)
    /\ reqs[q].state \in {Running, Suspended}
    /\ LET r == routes[served][reqs[q].route]
           next == Thrown(reqs[q], HookChain(r), Catches(served, r))
       IN  /\ reqs' = [reqs EXCEPT ![q] = next]
           /\ thrown' = Append(thrown, [req |-> q, at |-> next.pos,
                                        handler |-> Catches(served, r)])
    /\ UNCHANGED <<cur, config, hooks, event, routes, registry, executed, mounts, edges,
                   clock>>
    /\ UNCHANGED assembly
    /\ UNCHANGED <<served, onError, store>>

\* timeout or disconnect of request q while its hook awaits
Cancel(q) ==
    /\ served # 0
    /\ q \in 1..Len(reqs)
    /\ reqs[q].state = Suspended
    /\ reqs' = Abort(reqs, q)
    /\ UNCHANGED <<cur, config, hooks, event, routes, registry, executed, mounts, edges,
                   clock>>
    /\ UNCHANGED assembly
    /\ UNCHANGED served
    /\ UNCHANGED handling

\* the next hook of request q is async: it starts, writes to the store and
\* awaits
Await(q) ==
    /\ served # 0
    /\ q \in 1..Len(reqs)
    /\ Ready(reqs[q])
    /\ reqs[q].pos < Len(HookChain(routes[served][reqs[q].route]))
    /\ reqs' = [reqs EXCEPT ![q] = Begin(@)]
    /\ store' = store + 1
    /\ UNCHANGED <<cur, config, hooks, event, routes, registry, executed, mounts, edges,
                   clock>>
    /\ UNCHANGED assembly
    /\ UNCHANGED <<served, onError, thrown>>

\* what request q awaited is there: its hook goes on and returns
Resume(q, outcome) ==
    /\ served # 0
    /\ q \in 1..Len(reqs)
    /\ reqs[q].state = Suspended
    /\ reqs' = [reqs EXCEPT ![q] =
                    Settle(@, HookChain(routes[served][@.route]), outcome)]
    /\ UNCHANGED <<cur, config, hooks, event, routes, registry, executed, mounts, edges,
                   clock>>
    /\ UNCHANGED assembly
    /\ UNCHANGED served
    /\ UNCHANGED handling

\* programs of anonymous instances: encapsulation, scope and order of code
Next ==
    \/ NewInstance(Anonymous)
    \/ \E scope \in Scopes : On(scope)
    \/ \E scope \in {Scoped, Global} : As(scope)
    \/ Get(NoRef, NoTrait)
    \/ \E c \in Nodes : Declared(c) /\ Use(c)

Spec == Init /\ [][Next]_vars

\* programs of named and anonymous plugins that declare routes: deduplication
NextDedup ==
    \/ \E cfg \in Configs : NewInstance(cfg)
    \/ Get(NoRef, NoTrait)
    \/ \E c \in Nodes : Declared(c) /\ Use(c)

SpecDedup == Init /\ [][NextDedup]_vars

\* programs of plugins that decorate the context and of handlers that take
\* properties from it, well written or not: dependency
NextCaps ==
    \/ \E cfg \in {Anonymous, Versioned} : NewInstance(cfg)
    \/ \E cap \in Caps : Decorate(cap)
    \/ \E ref \in Caps \cup {NoRef} : Get(ref, NoTrait)
    \/ \E c \in Nodes : Use(c)

SpecCaps == Init /\ [][NextCaps]_vars

\* programs of a plugin and an application with macros and guards: the hooks
\* a route gets from the macro it refers to and from the guards it is declared
\* in
NextTrait ==
    \/ cur < 2 /\ NewInstance(Anonymous)
    \/ On(Local)
    \/ \E name \in Macros : Macro(name)
    \/ Guard
    \/ EndGuard
    \/ \E trait \in {NoTrait} \cup Traits : Get(NoRef, trait)
    \/ \E c \in Nodes : Declared(c) /\ Use(c)

SpecTrait == Init /\ [][NextTrait]_vars

\* programs that build or fail to build, and the requests the built
\* application serves: handlers that take properties of the context, uses of
\* instances declared or not
NextBuild ==
    \/ NewInstance(Anonymous)
    \/ \E cap \in Caps : Decorate(cap)
    \/ \E ref \in Caps \cup {NoRef} : Get(ref, NoTrait)
    \/ \E c \in Nodes : Use(c)
    \/ Listen
    \/ \E i \in 1..NumNodes : reqs = <<>> /\ Receive(i)
    \/ \E q \in 1..MaxReqs : \E outcome \in Outcomes : Step(q, outcome)

SpecBuild == Init /\ [][NextBuild]_vars

\* an application of one instance with hooks, a macro and routes, and the
\* requests it serves
NextServe ==
    \/ cur = 0 /\ NewInstance(Anonymous)
    \/ On(Local)
    \/ \E name \in Macros : Macro(name)
    \/ \E trait \in {NoTrait} \cup Traits :
            cur \in Nodes /\ Defined(cur, trait) /\ Get(NoRef, trait)
    \/ Listen
    \/ \E i \in 1..MaxRoutes : Receive(i)
    \/ \E q \in 1..MaxReqs : \E outcome \in Outcomes : Step(q, outcome)

SpecServe == Init /\ [][NextServe]_vars

\* an application and its plugin with hooks, sync and async, and the
\* requests the application serves at the same time
NextAsync ==
    \/ cur < 2 /\ NewInstance(Anonymous)
    \/ On(Local)
    \/ Get(NoRef, NoTrait)
    \/ \E c \in Nodes : Declared(c) /\ edges = {} /\ Use(c)
    \/ cur = 2 /\ Listen
    \/ \E i \in 1..NumNodes : Receive(i)
    \/ \E q \in 1..MaxReqs : \E outcome \in Outcomes : Step(q, outcome)
    \/ \E q \in 1..MaxReqs : Await(q)
    \/ \E q \in 1..MaxReqs : \E outcome \in Outcomes : Resume(q, outcome)
    \/ OnError
    \/ \E q \in 1..MaxReqs : Raise(q)
    \/ \E q \in 1..MaxReqs : Cancel(q)

SpecAsync == Init /\ [][NextAsync]_vars

\* programs of a named plugin with global hooks and of the modules and the
\* server that use it
NextDiamond ==
    \/ \E cfg \in {Anonymous, Versioned} : NewInstance(cfg)
    \/ On(Global)
    \/ Get(NoRef, NoTrait)
    \/ \E c \in Nodes : Declared(c) /\ Use(c)

SpecDiamond == Init /\ [][NextDiamond]_vars

\* ------------------------------------------------------------------ claims
InChain(h, r) == \E i \in 1..Len(r.chain) : r.chain[i] = h

HookIds == 1..Len(hooks)

\* the route instance n declared itself, and the single .use() it made
OwnRoute(n) == CHOOSE r \in Range(routes[n]) : r.node = n

TheUse(n) == CHOOSE e \in Uses(n) : TRUE

\* the program of the scope level example: child declares a route; current
\* declares hooks, uses child, declares a route; parent uses current and
\* declares a route; main uses parent and declares a route
UsesOne(n) == Cardinality(Uses(n)) = 1 /\ OwnRoutes(n) = 1
                 /\ TheUse(n).order < OwnRoute(n).order

ParentOfTable(main) == TheUse(main).c

CurrentOfTable(main) == TheUse(ParentOfTable(main)).c

ChildOfTable(main) == TheUse(CurrentOfTable(main)).c

TableProgram(main) ==
    /\ UsesOne(main)
    /\ UsesOne(ParentOfTable(main))
    /\ UsesOne(CurrentOfTable(main))
    /\ Uses(ChildOfTable(main)) = {} /\ OwnRoutes(ChildOfTable(main)) = 1
    /\ \A h \in HookIds :
        /\ hooks[h].node = CurrentOfTable(main)
        /\ hooks[h].order < TheUse(CurrentOfTable(main)).order

\* the instances whose routes have the hook, by scope, as the table gives them
TableRow(scope, main) ==
    IF scope = Local THEN {ChildOfTable(main), CurrentOfTable(main)}
    ELSE IF scope = Scoped
         THEN {ChildOfTable(main), CurrentOfTable(main), ParentOfTable(main)}
         ELSE {ChildOfTable(main), CurrentOfTable(main), ParentOfTable(main), main}

OrderOfCode ==
    \A n \in Nodes : \A r \in Range(routes[n]) :
        r.node = n => \A h \in Range(r.chain) : hooks[h].order < r.order

\* a registered route keeps its place in the table and its chain
Frozen ==
    \A n \in Nodes : \A i \in 1..Len(routes[n]) :
        i <= Len(routes'[n]) /\ routes'[n][i] = routes[n][i]

C5_LocalReachesUser ==
    /\ \A h \in HookIds : \A e \in edges :
        (hooks[h].scope = Local /\ e.c = hooks[h].node) =>
            \A r \in Range(routes[e.p]) :
                (r.node = e.p /\ r.order > e.order) => InChain(h, r)
    /\ \A h \in HookIds : \A n \in Nodes : \A r \in Range(routes[n]) :
        (hooks[h].scope = Local /\ r.node = n /\ n # hooks[h].node
            /\ hooks[h].node \notin Descendants(n)) => ~InChain(h, r)

\* the instances a hook of scoped scope declared on d reaches: d, the instances
\* that use d directly, and the descendants of those
ScopedReach(d) ==
    {d} \cup Parents(d) \cup Descendants(d) \cup UNION {Descendants(p) : p \in Parents(d)}

C7_GlobalEverywhere ==
    \A h \in HookIds :
        hooks[h].scope = Global =>
            /\ \A r \in Range(routes[hooks[h].node]) :
                r.at > hooks[h].order => InChain(h, r)
            /\ \A e \in edges :
                (e.c = hooks[h].node \/ hooks[h].node \in Descendants(e.c)) =>
                    \A r \in Range(routes[e.p]) : r.at > e.order => InChain(h, r)

C7_Witness ==
    \E h \in HookIds : \E e1, e2, e3 \in edges :
        /\ hooks[h].scope = Global
        /\ e1.c = hooks[h].node /\ e2.c = e1.p /\ e3.c = e2.p
        /\ OwnRoutes(e3.p) = 1 /\ OwnRoute(e3.p).order > e3.order
        /\ InChain(h, OwnRoute(e3.p))
        /\ OwnRoutes(e2.p) = 1 /\ OwnRoute(e2.p).order > e2.order
        /\ InChain(h, OwnRoute(e2.p))

\* the uses of plugin n that executed it: they registered its routes
Registrations(n) ==
    {e \in edges : e.c = n /\ \E r \in Range(routes[e.p]) : r.at = e.order}

\* C8: deduplication. A plugin with a name is executed exactly once however
\* many times and through however many modules it is used: its identifier is
\* recorded by the first use and every later use is skipped.
C8_ExecutedOnce ==
    \A n \in Nodes :
        config[n].name # NoName =>
            /\ executed[n] = (IF mounts[n] > 0 THEN 1 ELSE 0)
            /\ (Key(config[n]) \in registry) = (mounts[n] > 0)
            /\ routes[n] # <<>> => Cardinality(Registrations(n)) = executed[n]

C8_Witness ==
    \E e1, e2, e3, e4 \in edges :
        /\ config[e1.c].name # NoName
        /\ e1.c = e2.c /\ e1.p # e2.p
        /\ e3.p = e4.p /\ e3.c = e1.p /\ e4.c = e2.p
        /\ mounts[e1.c] = 2 /\ executed[e1.c] = 1
        /\ Cardinality(Registrations(e1.c)) = 1

\* C9: the seed is part of the identifier. Two plugins with the same name and
\* different seeds, both used, are both executed: neither use suppresses the
\* other.
C9_SeedIsIdentity ==
    \A a, b \in Nodes :
        (/\ a # b
         /\ config[a].name # NoName /\ config[a].name = config[b].name
         /\ config[a].seed \in Seeds /\ config[b].seed \in Seeds
         /\ config[a].seed # config[b].seed
         /\ mounts[a] > 0 /\ mounts[b] > 0)
            => /\ executed[a] = 1 /\ executed[b] = 1
               /\ routes[a] # <<>> => Registrations(a) # {}
               /\ routes[b] # <<>> => Registrations(b) # {}

C9_Witness ==
    \E e1, e2 \in edges :
        /\ e1.p = e2.p /\ e1.c # e2.c
        /\ config[e1.c].name # NoName /\ config[e1.c].name = config[e2.c].name
        /\ config[e1.c].seed \in Seeds /\ config[e2.c].seed \in Seeds
        /\ config[e1.c].seed # config[e2.c].seed
        /\ executed[e1.c] = 1 /\ executed[e2.c] = 1
        /\ Registrations(e1.c) # {} /\ Registrations(e2.c) # {}

\* C10: a plugin without a name is never deduplicated. It is executed at every
\* use, whatever the registry holds.
C10_AnonymousAlways ==
    \A n \in Nodes :
        config[n].name = NoName =>
            /\ executed[n] = mounts[n]
            /\ routes[n] # <<>> => Cardinality(Registrations(n)) = mounts[n]

C10_Witness ==
    \E e0, e1, e2 \in edges :
        /\ config[e0.c].name # NoName /\ config[e1.c].name = NoName
        /\ e0.order < e1.order /\ e1.order < e2.order
        /\ e1.c = e2.c
        /\ executed[e1.c] = 2 /\ mounts[e1.c] = 2
        /\ Cardinality(Registrations(e1.c)) = 2
        /\ registry # {}

\* the uses of a plugin with a name that did not execute it: it had been used
\* before
Skipped == {e \in edges : config[e.c].name # NoName
                          /\ \E e0 \in edges : e0.c = e.c /\ e0.order < e.order}

FirstUse(c) == CHOOSE e0 \in edges : e0.c = c /\ \A e \in edges : e.c = c => e0.order <= e.order

RoutesAfter(e) == {r \in Range(routes[e.p]) : r.node = e.p /\ r.order > e.order}

\* C11: where the use of a plugin is skipped by deduplication, what the plugin
\* decorated is available all the same: the instance has the properties, a
\* route it declares after the use never fails on one of them, and the value it
\* gets is the one the routes after the first use get.
C11_SharedCapabilities ==
    \A e \in Skipped :
        /\ decorator[e.c] \subseteq decorator[e.p]
        /\ \A d \in decorator[e.c] :
            /\ ~(error.kind = MissingDependency /\ error.node = e.p /\ error.ref = d.name)
            /\ \A r \in RoutesAfter(e) : \A r0 \in RoutesAfter(FirstUse(e.c)) :
                (r.ref.name = d.name /\ r0.ref.name = d.name) => r.ref = r0.ref

C11_Witness ==
    \E e \in Skipped : \E d \in decorator[e.c] :
        /\ d.owner = e.c
        /\ FirstUse(e.c).p # e.p
        /\ \E r \in RoutesAfter(e) : r.ref = d
        /\ \E r0 \in RoutesAfter(FirstUse(e.c)) : r0.ref = d
        /\ \E m \in Nodes : {e.p, FirstUse(e.c).p} \subseteq Children(m)

\* the chain request q runs
ChainOf(q) == HookChain(routes[served][reqs[q].route])

\* C12: halt short-circuit. When a hook of the chain returns a status, the
\* request is over: the hooks before it have run, in the order of the chain,
\* no hook after it and not the handler runs, and the response is what that
\* hook returned.
C12_HaltShortCircuit ==
    \A q \in 1..Len(reqs) :
        /\ reqs[q].ran = SubSeq(ChainOf(q), 1, reqs[q].pos)
        /\ reqs[q].resp.status = "halt" =>
            /\ reqs[q].state = Done
            /\ ~reqs[q].handled
            /\ reqs[q].pos \in 1..Len(ChainOf(q))
            /\ reqs[q].resp.by = ChainOf(q)[reqs[q].pos]
        /\ reqs[q].handled =>
            /\ reqs[q].resp.status = "ok"
            /\ reqs[q].pos = Len(ChainOf(q))

C12_Witness ==
    \E q \in 1..Len(reqs) :
        /\ Len(ChainOf(q)) = 3
        /\ reqs[q].state = Done
        /\ reqs[q].resp = [status |-> "halt", by |-> ChainOf(q)[2]]
        /\ reqs[q].ran = <<ChainOf(q)[1], ChainOf(q)[2]>>
        /\ ~reqs[q].handled

\* the hooks of macros a request to the route runs
TraitHooks(r) == {e.trait : e \in Range(HookChain(r))} \ {NoTrait}

\* C13: macro expansion. A route that refers to a macro with a value has, in
\* every table it is registered in, the hook of that macro made with that
\* value and no other hook of a macro; a route that refers to the macro with
\* another value has another hook, and a route that refers to no macro has no
\* hook of a macro.
C13_MacroExpansion ==
    \A n \in Nodes : \A r \in Range(routes[n]) :
        /\ TraitHooks(r) = (IF r.trait = NoTrait THEN {} ELSE {r.trait})
        /\ \A r2 \in Range(routes[n]) :
            (r.trait # NoTrait /\ r2.trait # NoTrait /\ r.trait # r2.trait)
                => r.local # r2.local

C13_Witness ==
    \E n \in Nodes : \E r1, r2, r3 \in Range(routes[n]) :
        /\ r1.trait = [name |-> "role", param |-> "admin"]
        /\ r2.trait = [name |-> "role", param |-> "user"]
        /\ r3.trait = NoTrait
        /\ TraitHooks(r1) = {r1.trait} /\ TraitHooks(r2) = {r2.trait}
        /\ TraitHooks(r3) = {}

\* the hook was declared by a guard: it is not an event of its instance
IsGuardHook(h) == ~Has(event[hooks[h].node], h)

AllRoutes == UNION {Range(routes[n]) : n \in Nodes}

\* C14: guard. Every route declared in the builder of a guard has the hook of
\* the guard in its chain, and a route declared outside the builder, on the
\* same instance or on another, before or after the guard, does not.
C14_Guard ==
    \A h \in HookIds :
        IsGuardHook(h) =>
            \A r \in AllRoutes : InChain(h, r) <=> h \in Range(r.frame)

C14_Witness ==
    \E h \in HookIds : \E n \in Nodes : \E r1, r2 \in Range(routes[n]) :
        /\ IsGuardHook(h)
        /\ r1.node = n /\ r2.node = n /\ hooks[h].node = n
        /\ h \in Range(r1.frame) /\ InChain(h, r1)
        /\ r2.frame = <<>> /\ r2.order > r1.order /\ ~InChain(h, r2)

\* the hooks of guards in the chain of a route, in the order they run
GuardPart(r) == SelectSeq(r.chain, IsGuardHook)

\* C15: nested guards. A route declared in the builder of a guard that is
\* itself in the builder of another has the hooks of both, the outer one
\* first, and none replaces the other; a route of the outer builder that is
\* outside the inner one has the hook of the outer guard only.
C15_NestedGuards ==
    \A r \in AllRoutes :
        /\ GuardPart(r) = r.frame
        /\ \A i, j \in 1..Len(GuardPart(r)) :
            i < j => hooks[GuardPart(r)[i]].order < hooks[GuardPart(r)[j]].order

C15_Witness ==
    \E n \in Nodes : \E r1, r2 \in Range(routes[n]) : \E outer, inner \in HookIds :
        /\ r1.node = n /\ r2.node = n
        /\ hooks[outer].order < hooks[inner].order
        /\ r1.frame = <<outer, inner>> /\ GuardPart(r1) = <<outer, inner>>
        /\ r2.frame = <<outer>> /\ GuardPart(r2) = <<outer>>

\* the instances an instance reaches through .use(), computed in at most
\* NumNodes rounds
RECURSIVE Reach(_, _)
Reach(S, k) ==
    IF k = 0 THEN S
    ELSE Reach(S \cup {e.c : e \in {x \in edges : x.p \in S}}, k - 1)

Visible(n) == Reach({n}, NumNodes)

Original(r) == CHOOSE o \in Range(routes[r.node]) : o.node = r.node /\ o.order = r.order

Kept(n) ==
    \A i \in 1..Len(routes[n]) :
        i <= Len(routes'[n]) /\ routes'[n][i] = routes[n][i]

\* the entries a use adds to the table of n are the entries of the plugin,
\* each with the events n has registered so far ahead of the chain it had
Copied(n) ==
    \A i \in (Len(routes[n]) + 1)..Len(routes'[n]) :
        routes'[n][i].node # n =>
            \E c \in Nodes : \E o \in Range(routes[c]) :
                /\ c # n
                /\ o.node = routes'[n][i].node /\ o.order = routes'[n][i].order
                /\ routes'[n][i].chain = Ids(event[n]) \o o.chain
                /\ routes'[n][i].at > o.at

Increasing(chain) ==
    \A i, j \in 1..Len(chain) : i < j => hooks[chain[i]].order < hooks[chain[j]].order

CanStep(q) == ENABLED Step(q, Continue)

\* C21: the hooks of a request run one after the other, in the order of the
\* chain: a hook starts only when the hook before it has returned, at most
\* one hook of a request is awaiting, and a request whose hook awaits keeps no
\* other request from taking its next step.
C21_Sequential ==
    \A q \in 1..Len(reqs) :
        /\ reqs[q].pos <= Len(ChainOf(q))
        /\ Len(reqs[q].ran) \in {reqs[q].pos - 1, reqs[q].pos}
        /\ reqs[q].ran = SubSeq(ChainOf(q), 1, Len(reqs[q].ran))
        /\ reqs[q].state = Suspended => Len(reqs[q].ran) = reqs[q].pos - 1
        /\ reqs[q].state = Running =>
            /\ Len(reqs[q].ran) = reqs[q].pos
            /\ CanStep(q)

C21_Witness ==
    \E q, p \in 1..Len(reqs) :
        /\ q # p
        /\ reqs[q].state = Suspended /\ reqs[q].pos = 1
        /\ reqs[p].state = Suspended /\ reqs[p].pos = 2
        /\ reqs[p].ran = <<ChainOf(p)[1]>>

\* the errors request q has thrown
ThrownBy(q) == {k \in 1..Len(thrown) : thrown[k].req = q}

\* what a request that threw has come to
Failed(k) ==
    LET q == thrown[k].req
        r == routes[served][reqs[q].route]
    IN  /\ reqs[q].state = Done
        /\ ~reqs[q].handled
        /\ reqs[q].pos = thrown[k].at
        /\ Len(reqs[q].ran) \in {reqs[q].pos - 1, reqs[q].pos}
        /\ ThrownBy(q) = {k}
        /\ thrown[k].handler = Catches(served, r)
        /\ IF Catches(served, r) # 0
           THEN /\ reqs[q].resp.status = "error"
                /\ reqs[q].resp.by.order = onError[served]
           ELSE reqs[q].resp = [status |-> "failure", by |-> NoEntry]

\* a step in which a request throws changes that request only
FaultIsLocal ==
    thrown' # thrown =>
        /\ Len(thrown') = Len(thrown) + 1
        /\ Len(reqs') = Len(reqs)
        /\ \A p \in 1..Len(reqs) : p # thrown'[Len(thrown')].req => reqs'[p] = reqs[p]
        /\ UNCHANGED <<cur, config, hooks, event, routes, registry, executed, mounts,
                       edges, clock, decorator, macro, guard, error, served, onError,
                       store>>

\* C22: when a hook or the handler of a request throws, nothing more of the
\* request runs, the request ends with a response (that of onError, run once
\* with the error, when the route has one; the failure response otherwise),
\* and the step changes no other request and nothing of the instances.
C22_Fault == [](\A k \in 1..Len(thrown) : Failed(k)) /\ [][FaultIsLocal]_vars

C22_Witness ==
    \E k, j \in 1..Len(thrown) :
        /\ k # j
        /\ thrown[k].handler # 0 /\ thrown[j].handler = 0
        /\ thrown[k].at = 2 /\ reqs[thrown[k].req].ran = <<ChainOf(thrown[k].req)[1]>>
        /\ reqs[thrown[k].req].resp.status = "error"
        /\ reqs[thrown[j].req].resp.status = "failure"

\* request q was cancelled
IsAborted(rq) == rq.resp = Aborted

\* the request ends in this step because it is cancelled
Cancelled(q) == ~IsAborted(reqs[q]) /\ IsAborted(reqs'[q])

\* the request can go on: take its next step, or have what it awaits
InFlight(q) ==
    /\ reqs[q].state = Running => ENABLED Step(q, Continue)
    /\ reqs[q].state = Suspended => ENABLED Resume(q, Continue)

\* a cancelled request keeps the hooks that returned and runs nothing more
\* and every hook that got to its await has written to the store
Partial ==
    /\ \A q \in 1..Len(reqs) :
        /\ IsAborted(reqs[q]) =>
            /\ reqs[q].state = Done
            /\ ~reqs[q].handled
            /\ Len(reqs[q].ran) = reqs[q].pos - 1
        /\ InFlight(q)
    /\ store >= Cardinality({q \in 1..Len(reqs) :
                                IsAborted(reqs[q]) \/ reqs[q].state = Suspended})

\* the step that cancels a request changes that request only: the others
\* are as they were, and so is the store
CancelIsLocal ==
    \A q \in 1..Len(reqs) :
        Cancelled(q) =>
            /\ reqs[q].state = Suspended
            /\ reqs'[q].ran = reqs[q].ran /\ reqs'[q].pos = reqs[q].pos
            /\ Len(reqs') = Len(reqs)
            /\ \A p \in 1..Len(reqs) : p # q => reqs'[p] = reqs[p]
            /\ store' = store

\* C23: a timeout or disconnect while a hook of a request awaits ends that
\* request only: the rest of its chain and its handler never run, every other
\* request is as it was and can go on, and the store keeps what the hooks
\* wrote before (nothing is rolled back).
C23_Cancellation == []Partial /\ [][CancelIsLocal /\ store' >= store]_vars

C23_Witness ==
    \E q, p \in 1..Len(reqs) :
        /\ q # p
        /\ IsAborted(reqs[q]) /\ reqs[q].pos = 2 /\ reqs[q].ran = <<ChainOf(q)[1]>>
        /\ reqs[p].handled /\ Len(reqs[p].ran) = 2
        /\ store = 1

\* how many times the hook is in the chain
Times(h, chain) == Cardinality({i \in 1..Len(chain) : chain[i] = h})

\* the server uses two modules that both use the plugin
Diamond(srv, m1, m2, d) ==
    /\ m1 # m2
    /\ \E e \in edges : e.p = srv /\ e.c = m1
    /\ \E e \in edges : e.p = srv /\ e.c = m2
    /\ \E e \in edges : e.p = m1 /\ e.c = d
    /\ \E e \in edges : e.p = m2 /\ e.c = d

\* the routes instance n declared after it used c, as n has them
DeclaredAfterUse(n, c) ==
    {r \in Range(routes[n]) :
        r.node = n /\ \E e \in edges : e.p = n /\ e.c = c /\ e.order < r.order}

\* C24: a global hook of a named plugin is at most once in the chain of any
\* route, and when a server uses two modules that both use the plugin, it is
\* exactly once in the chain of the routes each module declares after its use
\* of the plugin and of the routes the server declares after its use of a
\* module.
C24_NoDuplicate ==
    \A h \in HookIds :
        (Named(h) /\ hooks[h].scope = Global) =>
            /\ \A n \in Nodes : \A r \in Range(routes[n]) : Times(h, r.chain) <= 1
            /\ \A srv, m1, m2 \in Nodes :
                Diamond(srv, m1, m2, hooks[h].node) =>
                    /\ \A r \in DeclaredAfterUse(m1, hooks[h].node) : Times(h, r.chain) = 1
                    /\ \A r \in DeclaredAfterUse(srv, m1) : Times(h, r.chain) = 1

C24_Witness ==
    \E h \in HookIds : \E srv, m1, m2 \in Nodes :
        /\ Named(h) /\ hooks[h].scope = Global
        /\ Diamond(srv, m1, m2, hooks[h].node)
        /\ DeclaredAfterUse(m1, hooks[h].node) # {}
        /\ DeclaredAfterUse(m2, hooks[h].node) # {}
        /\ \E r \in DeclaredAfterUse(srv, m1) \cap DeclaredAfterUse(srv, m2) :
                r.chain = <<h>>
        /\ \E r \in Range(routes[srv]) : r.node = m2 /\ r.chain = <<h>>
        /\ executed[hooks[h].node] = 1 /\ mounts[hooks[h].node] = 2

====
